---- MODULE Spec2Model ----
(***************************************************************************)
(* Model of sim-poker: the card signature encoding (components.py), the    *)
(* hand value function, the value-to-rank table builder, the persistence   *)
(* of the table and the hand evaluation entry point (evaluator.py).        *)
(***************************************************************************)
EXTENDS Integers, Sequences, FiniteSets, TLC

(***************************************************************************)
(* Python integers are unbounded; a card signature needs 44 bits.  A wide  *)
(* integer is the pair <<hi, lo>> of value hi * 2^20 + lo, 0 <= lo < 2^20. *)
(***************************************************************************)
Limb == 2 ^ 20

WAdd(a, b) ==
  <<a[1] + b[1] + ((a[2] + b[2]) \div Limb), (a[2] + b[2]) % Limb>>

RECURSIVE BitAnd(_, _)
BitAnd(x, y) ==
  IF x = 0 \/ y = 0 THEN 0
  ELSE (x % 2) * (y % 2) + 2 * BitAnd(x \div 2, y \div 2)

WAnd(a, b) == <<BitAnd(a[1], b[1]), BitAnd(a[2], b[2])>>

RECURSIVE WShl(_, _)
WShl(a, n) ==
  IF n = 0 THEN a
  ELSE IF n >= 20 THEN WShl(<<a[1] * Limb + a[2], 0>>, n - 20)
  ELSE WShl(<<2 * a[1] + ((2 * a[2]) \div Limb), (2 * a[2]) % Limb>>, n - 1)

RECURSIVE WShr(_, _)
WShr(a, n) ==
  IF n = 0 THEN a
  ELSE IF n >= 20 THEN WShr(<<a[1] \div Limb, a[1] % Limb>>, n - 20)
  ELSE WShr(<<a[1] \div 2, (a[1] % 2) * (Limb \div 2) + (a[2] \div 2)>>, n - 1)

WZero == <<0, 0>>

WOne == <<0, 1>>

(***************************************************************************)
(* components.py: Suit, Rank, Card.                                        *)
(***************************************************************************)
SPADES == <<0, "S">>

HEARTS == <<1, "H">>

DIAMONDS == <<2, "D">>

CLUBS == <<3, "C">>

SuitList == <<SPADES, HEARTS, DIAMONDS, CLUBS>>

ACE == <<12, "A">>

TWO == <<0, "2">>

THREE == <<1, "3">>

FOUR == <<2, "4">>

FIVE == <<3, "5">>

SIX == <<4, "6">>

SEVEN == <<5, "7">>

EIGHT == <<6, "8">>

NINE == <<7, "9">>

TEN == <<8, "10">>

JACK == <<9, "J">>

QUEEN == <<10, "Q">>

KING == <<11, "K">>

RankList ==
  <<ACE, TWO, THREE, FOUR, FIVE, SIX, SEVEN, EIGHT, NINE, TEN, JACK, QUEEN, KING>>

constructSignature(suitBit, grade) ==
  LET r == WShl(WOne, (grade * 3) + 1)
      s == WShl(WOne, suitBit)
  IN  WAdd(WShl(s, 40), r)

Card(rank, suit) ==
  [suit |-> suit[2], value |-> rank[2], sig |-> constructSignature(suit[1], rank[1])]

getSignature(c) == c.sig

(***************************************************************************)
(* evaluator.py: Evaluator._getHandValue.                                  *)
(***************************************************************************)
Mask40 == <<Limb - 1, Limb - 1>>

\* A hand value that keeps the suit bits of the sum (no "& 0xFFFFFFFFFF").
getHandValueUnmasked(hand) ==
  LET c1 == getSignature(hand[1])
      c2 == getSignature(hand[2])
      c3 == getSignature(hand[3])
      c4 == getSignature(hand[4])
      c5 == getSignature(hand[5])
      all == WAnd(WAnd(WAnd(WAnd(c1, c2), c3), c4), c5)
      v == IF WShr(all, 40) # WZero THEN WOne ELSE WZero
  IN  WAdd(v, WAdd(WAdd(WAdd(WAdd(c1, c2), c3), c4), c5))

getHandValue(hand) ==
  LET c1 == getSignature(hand[1])
      c2 == getSignature(hand[2])
      c3 == getSignature(hand[3])
      c4 == getSignature(hand[4])
      c5 == getSignature(hand[5])
      all == WAnd(WAnd(WAnd(WAnd(c1, c2), c3), c4), c5)
      v == IF WShr(all, 40) # WZero THEN WOne ELSE WZero
  IN  WAdd(v, WAnd(WAdd(WAdd(WAdd(WAdd(c1, c2), c3), c4), c5), Mask40))

(***************************************************************************)
(* evaluator.py: Evaluator._buildValueToRankMap.                           *)
(* The nine accumulators are the fields of one record.  Python indices are *)
(* 0-based; At(s, i) reads s[i].                                           *)
(***************************************************************************)
numKeys == 7462

At(s, i) == s[i + 1]

InList(v, list) == \E x \in 1..Len(list) : list[x] = v

Reversed(s) == [x \in 1..Len(s) |-> s[Len(s) + 1 - x]]

ranks == RankList

ranksBounded == ranks \o <<ACE>>

numRanks == Len(ranks)

numStraights == Len(ranksBounded) - 4

ranksReversed == SubSeq(Reversed(ranksBounded), 1, Len(ranksBounded) - 1)

numFlushStarts == Len(ranksReversed) - 4

EmptyLists ==
  [listFlushStraight |-> <<>>, listStraight |-> <<>>, listFlush |-> <<>>,
   listHigh |-> <<>>, listFourKind |-> <<>>, listThreeKind |-> <<>>,
   listFullHouse |-> <<>>, listPair |-> <<>>, listTwoPair |-> <<>>]

\* for x in range(lo, hi): acc = Body(acc, x).  The CASE test makes one
\* iteration's value be computed before the next iteration starts.
RECURSIVE ForRange(_, _, _, _)
ForRange(lo, hi, Body(_, _), acc) ==
  IF lo >= hi THEN acc
  ELSE LET nxt == Body(acc, lo)
       IN  CASE DOMAIN nxt # {} -> ForRange(lo + 1, hi, Body, nxt)

\* Body of the loop at lines 139-143, for one i.
StraightBody(L, i) ==
  LET h == [x \in 1..5 |-> Card(At(ranksBounded, i + x - 1), CLUBS)]
      h2 == [h EXCEPT ![1] = Card(At(ranksBounded, i), SPADES)]
  IN  [L EXCEPT !.listFlushStraight = Append(@, getHandValue(h)),
                !.listStraight = Append(@, getHandValue(h2))]

\* The straights built in ascending order: for i in range(numStraights).
RECURSIVE StraightLoopForward(_, _)
StraightLoopForward(L, i) ==
  IF i < 0 THEN L
  ELSE StraightBody(StraightLoopForward(L, i - 1), i)

\* for i in reversed(range(numStraights))
RECURSIVE StraightLoop(_, _)
StraightLoop(L, i) ==
  IF i < 0 THEN L
  ELSE LET nxt == StraightBody(L, i)
       IN  CASE DOMAIN nxt # {} -> StraightLoop(nxt, i - 1)

\* Body of the innermost loop at lines 153-162.
FlushBody(L, i, j, k, m, n) ==
  LET r1 == At(ranksReversed, i)
      r2 == At(ranksReversed, j)
      r3 == At(ranksReversed, k)
      r4 == At(ranksReversed, m)
      r5 == At(ranksReversed, n)
      h == <<Card(r1, CLUBS), Card(r2, CLUBS), Card(r3, CLUBS),
             Card(r4, CLUBS), Card(r5, CLUBS)>>
      fv == getHandValue(h)
      hv == getHandValue([h EXCEPT ![1] = Card(r1, SPADES)])
      L1 == IF ~InList(fv, L.listFlushStraight)
            THEN [L EXCEPT !.listFlush = Append(@, fv)] ELSE L
  IN  IF ~InList(hv, L1.listStraight)
      THEN [L1 EXCEPT !.listHigh = Append(@, hv)] ELSE L1

\* Lines 149-162 for one i: the loops over j, k, m, n.
FlushStep(L, i) ==
  ForRange(i + 1, numRanks, LAMBDA Lj, j :
    ForRange(j + 1, numRanks, LAMBDA Lk, k :
      ForRange(k + 1, numRanks, LAMBDA Lm, m :
        ForRange(m + 1, numRanks, LAMBDA Ln, n :
          FlushBody(Ln, i, j, k, m, n), Lm), Lk), Lj), L)

\* The four-of-a-kind loop without the test "j != i".
FourKindStepAll(L, template, i) ==
      ForRange(0, numRanks, LAMBDA Lj, j :
        LET h == template \o <<Card(At(ranksReversed, j), CLUBS)>>
            v == getHandValue(h)
        IN  IF ~InList(v, Lj.listFourKind)
            THEN [Lj EXCEPT !.listFourKind = Append(@, v)] ELSE Lj, L)

\* Lines 171-175 for one i.
FourKindStep(L, template, i) ==
      ForRange(0, numRanks, LAMBDA Lj, j :
        IF j # i
        THEN LET h == template \o <<Card(At(ranksReversed, j), CLUBS)>>
                 v == getHandValue(h)
             IN  IF ~InList(v, Lj.listFourKind)
                 THEN [Lj EXCEPT !.listFourKind = Append(@, v)] ELSE Lj
        ELSE Lj, L)

\* The three-of-a-kind body with "if" in the place of "elif": a full house
\* goes to both lists.
ThreeKindBodyBoth(L, template, i, j, k) ==
  IF j # i /\ k # i
  THEN LET r2 == At(ranksReversed, j)
           r3 == At(ranksReversed, k)
           h == template \o <<Card(r2, CLUBS), Card(r3, HEARTS)>>
           v == getHandValue(h)
           L1 == IF j = k /\ ~InList(v, L.listFullHouse)
                 THEN [L EXCEPT !.listFullHouse = Append(@, v)] ELSE L
       IN  IF ~InList(v, L1.listThreeKind)
           THEN [L1 EXCEPT !.listThreeKind = Append(@, v)]
           ELSE L1
  ELSE L

\* Lines 182-188: the body of the three-of-a-kind loops.
ThreeKindBody(L, template, i, j, k) ==
  IF j # i /\ k # i
  THEN LET r2 == At(ranksReversed, j)
           r3 == At(ranksReversed, k)
           h == template \o <<Card(r2, CLUBS), Card(r3, HEARTS)>>
           v == getHandValue(h)
       IN  IF j = k /\ ~InList(v, L.listFullHouse)
           THEN [L EXCEPT !.listFullHouse = Append(@, v)]
           ELSE IF ~InList(v, L.listThreeKind)
           THEN [L EXCEPT !.listThreeKind = Append(@, v)]
           ELSE L
  ELSE L

\* Lines 179-188 for one i.
ThreeKindStep(L, template, i) ==
      ForRange(0, numRanks, LAMBDA Lj, j :
        ForRange(0, numRanks, LAMBDA Lk, k :
          ThreeKindBody(Lk, template, i, j, k), Lj), L)

\* Lines 195-210: the body of the pair and two-pair loops.
PairBody(L, template, i, j, k, m) ==
  IF j # i /\ k # i /\ m # i
  THEN LET r2 == At(ranksReversed, j)
           r3 == At(ranksReversed, k)
           r4 == At(ranksReversed, m)
           h == template \o <<Card(r2, CLUBS), Card(r3, HEARTS), Card(r4, SPADES)>>
           v == getHandValue(h)
           L1 == IF k # j /\ k # m /\ m # j /\ ~InList(v, L.listPair)
                 THEN [L EXCEPT !.listPair = Append(@, v)] ELSE L
       IN  IF j = k /\ j # m /\ k # m /\ ~InList(v, L1.listTwoPair)
           THEN [L1 EXCEPT !.listTwoPair = Append(@, v)] ELSE L1
  ELSE L

\* Lines 192-210 for one i.
PairStep(L, template, i) ==
      ForRange(0, numRanks, LAMBDA Lj, j :
        ForRange(0, numRanks, LAMBDA Lk, k :
          ForRange(0, numRanks, LAMBDA Lm, m :
            PairBody(Lm, template, i, j, k, m), Lk), Lj), L)

\* Lines 165-210 for one i; template[:-1] drops the last card.
KindStep(L, i) ==
  LET r1 == At(ranksReversed, i)
      template4 == <<Card(r1, CLUBS), Card(r1, DIAMONDS),
                     Card(r1, HEARTS), Card(r1, SPADES)>>
      template3 == SubSeq(template4, 1, Len(template4) - 1)
      template2 == SubSeq(template3, 1, Len(template3) - 1)
      L4 == FourKindStep(L, template4, i)
      L3 == ThreeKindStep(L4, template3, i)
  IN  PairStep(L3, template2, i)

\* Lines 137-210: the nine lists the builder ends with.
BuildLists ==
  LET L1 == StraightLoop(EmptyLists, numStraights - 1)
      L2 == ForRange(0, numFlushStarts, LAMBDA L, i : FlushStep(L, i), L1)
  IN  ForRange(0, numRanks, LAMBDA L, i : KindStep(L, i), L2)


CategoryNames ==
  {"listFlushStraight", "listFourKind", "listFullHouse", "listFlush",
   "listStraight", "listThreeKind", "listTwoPair", "listPair", "listHigh"}

ListSet(list) == {list[x] : x \in 1..Len(list)}

\* The concatenation with the flushes placed before the full houses.
KeysFlushFirst(L) ==
  L.listFlushStraight \o L.listFourKind \o L.listFlush \o L.listFullHouse \o
  L.listStraight \o L.listThreeKind \o L.listTwoPair \o L.listPair \o L.listHigh

\* Lines 222-223: the concatenation, strongest category first.
Keys(L) ==
  L.listFlushStraight \o L.listFourKind \o L.listFullHouse \o L.listFlush \o
  L.listStraight \o L.listThreeKind \o L.listTwoPair \o L.listPair \o L.listHigh

\* dict(zip(keys, values)) over the positions lo..hi: a later pair of the
\* same key replaces an earlier one.
RECURSIVE DictZip(_, _, _, _)
DictZip(keys, values, lo, hi) ==
  IF lo > hi THEN <<>>
  ELSE IF lo = hi THEN keys[lo] :> values[lo]
  ELSE LET mid == (lo + hi) \div 2
       IN  DictZip(keys, values, mid + 1, hi) @@ DictZip(keys, values, lo, mid)

Min(a, b) == IF a < b THEN a ELSE b

\* Lines 212-226: the two assertions and the returned dictionary.
ValidateAndZip(L) ==
  LET common == ListSet(L.listFlushStraight) \cap ListSet(L.listStraight)
                  \cap ListSet(L.listFlush) \cap ListSet(L.listHigh)
                  \cap ListSet(L.listFourKind) \cap ListSet(L.listThreeKind)
                  \cap ListSet(L.listPair) \cap ListSet(L.listTwoPair)
      keys == Keys(L)
      values == [x \in 1..numKeys |-> x - 1]
  IN  IF Cardinality(common) # 0
      THEN [kind |-> "raised", exc |-> "AssertionError", map |-> <<>>]
      ELSE IF Len(keys) # numKeys
      THEN [kind |-> "raised", exc |-> "AssertionError", map |-> <<>>]
      ELSE [kind |-> "ok", exc |-> "",
            map |-> DictZip(keys, values, 1, Min(Len(keys), Len(values)))]

buildValueToRankMap == ValidateAndZip(BuildLists)

(***************************************************************************)
(* evaluator.py: Evaluator.evaluateHands.  self._valToRank is the record   *)
(* [kind, map]: kind "None" for Python's None, "dict" for a dictionary.    *)
(* A result is [kind, exc, value]: the returned list of 0-based indices,   *)
(* or the exception raised.                                                *)
(***************************************************************************)
NoneValue == [kind |-> "None", map |-> <<>>]

DictValue(d) == [kind |-> "dict", map |-> d]

Returned(v) == [kind |-> "ok", exc |-> "", value |-> v]

Raised(e) == [kind |-> "raised", exc |-> e, value |-> <<>>]

\* The loop without the branch of lines 237-238: a tie is not recorded.
RECURSIVE evaluateLoopNoTie(_, _, _, _, _)
evaluateLoopNoTie(table, hands, n, bestHands, bestScore) ==
  IF n >= Len(hands) THEN Returned(bestHands)
  ELSE IF Len(At(hands, n)) # 5 THEN Raised("ValueError")
  ELSE IF table.kind = "None" THEN Raised("TypeError")
  ELSE IF getHandValue(At(hands, n)) \notin DOMAIN table.map THEN Raised("KeyError")
  ELSE LET val == table.map[getHandValue(At(hands, n))]
       IN  IF val < bestScore
           THEN evaluateLoopNoTie(table, hands, n + 1, <<n>>, val)
           ELSE evaluateLoopNoTie(table, hands, n + 1, bestHands, bestScore)

\* Lines 231-238, from iteration n on.  The unpacking at line 109 raises
\* ValueError unless the hand has five cards; the subscript at line 233
\* raises TypeError on None and KeyError on a missing key.
RECURSIVE evaluateLoop(_, _, _, _, _)
evaluateLoop(table, hands, n, bestHands, bestScore) ==
  IF n >= Len(hands) THEN Returned(bestHands)
  ELSE IF Len(At(hands, n)) # 5 THEN Raised("ValueError")
  ELSE IF table.kind = "None" THEN Raised("TypeError")
  ELSE IF getHandValue(At(hands, n)) \notin DOMAIN table.map THEN Raised("KeyError")
  ELSE LET val == table.map[getHandValue(At(hands, n))]
       IN  IF val < bestScore
           THEN evaluateLoop(table, hands, n + 1, <<n>>, val)
           ELSE IF val = bestScore
           THEN evaluateLoop(table, hands, n + 1, Append(bestHands, n), bestScore)
           ELSE evaluateLoop(table, hands, n + 1, bestHands, bestScore)

evaluateHands(table, hands) == evaluateLoop(table, hands, 0, <<>>, numKeys)

(***************************************************************************)
(* evaluator.py: Evaluator._setValueToRankMap and the file valtorank.csv.  *)
(* The file is [exists, rows, state]; a row is a sequence of fields and a  *)
(* field a sequence of characters.  state records what last touched the    *)
(* file: "absent", "written" (by the builder) or "damaged".               *)
(***************************************************************************)
DigitChars == <<"0", "1", "2", "3", "4", "5", "6", "7", "8", "9">>

DigitValue ==
  [c \in {DigitChars[x] : x \in 1..10} |-> (CHOOSE x \in 1..10 : DigitChars[x] = c) - 1]

\* str(n) of a wide integer: its decimal digits.
RECURSIVE WStr(_)
WStr(a) ==
  IF a[1] = 0 /\ a[2] < 10 THEN <<DigitChars[a[2] + 1]>>
  ELSE LET t == (a[1] % 10) * Limb + a[2]
       IN  WStr(<<a[1] \div 10, t \div 10>>) \o <<DigitChars[(t % 10) + 1]>>

Str(n) == WStr(<<n \div Limb, n % Limb>>)

\* int(text) succeeds on a non-empty run of decimal digits.
IsIntText(f) == Len(f) > 0 /\ \A x \in 1..Len(f) : f[x] \in DOMAIN DigitValue

\* int(text) of the first n characters, as a wide integer.
RECURSIVE WParse(_, _)
WParse(f, n) ==
  IF n = 0 THEN WZero
  ELSE LET a == WParse(f, n - 1)
           lo == a[2] * 10 + DigitValue[f[n]]
       IN  <<a[1] * 10 + (lo \div Limb), lo % Limb>>

ParseKey(f) == WParse(f, Len(f))

ParseRank(f) == LET a == WParse(f, Len(f)) IN a[1] * Limb + a[2]

\* Line 121 on one row: "" when (int(r[0]), int(r[1])) succeeds.
RowError(r) ==
  IF Len(r) = 0 THEN "IndexError"
  ELSE IF ~IsIntText(r[1]) THEN "ValueError"
  ELSE IF Len(r) < 2 THEN "IndexError"
  ELSE IF ~IsIntText(r[2]) THEN "ValueError"
  ELSE ""

\* Lines 120-122: dict(items) of the rows read.
LoadRows(rows) ==
  LET keys == [x \in 1..Len(rows) |-> ParseKey(rows[x][1])]
      values == [x \in 1..Len(rows) |-> ParseRank(rows[x][2])]
  IN  DictZip(keys, values, 1, Len(rows))

\* The keys of a dictionary built from keys, in insertion order.
InsertionOrder(keys, d) ==
  IF Cardinality(DOMAIN d) = Len(keys) THEN keys
  ELSE LET first == SelectSeq([x \in 1..Len(keys) |-> x],
                              LAMBDA x : \A y \in 1..(x - 1) : keys[y] # keys[x])
       IN  [x \in 1..Len(first) |-> keys[first[x]]]

\* Line 127: writer.writerows(list(valToRank.items())), rows lo..hi.
RECURSIVE WriteRows(_, _, _, _)
WriteRows(order, d, lo, hi) ==
  IF lo > hi THEN <<>>
  ELSE IF lo = hi THEN <<<<WStr(order[lo]), Str(d[order[lo]])>>>>
  ELSE LET mid == (lo + hi) \div 2
       IN  WriteRows(order, d, lo, mid) \o WriteRows(order, d, mid + 1, hi)

AbsentFile == [exists |-> FALSE, rows |-> <<>>, state |-> "absent"]

\* Lines 124-127: the rows written for the table built.
WriteTable(keys, built) ==
  IF built.kind = "ok"
  THEN WriteRows(InsertionOrder(keys, built.map), built.map, 1,
                 Cardinality(DOMAIN built.map))
  ELSE <<>>

writtenRows == WriteTable(Keys(BuildLists), buildValueToRankMap)

\* Lines 118-122: the file is read; the first bad row raises.
LoadFile(f) ==
  IF \E x \in 1..Len(f.rows) : RowError(f.rows[x]) # ""
  THEN LET first == CHOOSE x \in 1..Len(f.rows) :
                      /\ RowError(f.rows[x]) # ""
                      /\ \A y \in 1..(x - 1) : RowError(f.rows[y]) = ""
       IN  [kind |-> "raised", exc |-> RowError(f.rows[first]),
            ret |-> NoneValue, file |-> f]
  ELSE [kind |-> "ok", exc |-> "", ret |-> NoneValue, file |-> f]

\* Lines 123-127: the table is built and written.
BuildFile(f, built, rows) ==
  IF built.kind = "raised"
  THEN [kind |-> "raised", exc |-> built.exc, ret |-> NoneValue, file |-> f]
  ELSE [kind |-> "ok", exc |-> "", ret |-> NoneValue,
        file |-> [exists |-> TRUE, state |-> "written", rows |-> rows]]

\* Lines 114-127.  The function has no return statement: it returns None
\* on both paths, and the dictionary it read or built is dropped.
setValueToRankMap(f) ==
  IF f.exists THEN LoadFile(f) ELSE BuildFile(f, buildValueToRankMap, writtenRows)

(***************************************************************************)
(* Bounds of the model.                                                    *)
(***************************************************************************)
\* evaluateHands is called with at most MaxHands hands.
MaxHands == 2

\* Hands are dealt from the first DeckSize cards of DealOrder.
DeckSize == 10

\* The second hand is given in one of the first MaxPerm orders of PermList.
MaxPerm == 3

\* The damaged rows of the file, and the positions overwritten in the
\* category lists given to the validation, are among the first few.
MaxCorruptRow == 2

MaxEditPos == 1

(***************************************************************************)
(* Inputs.                                                                 *)
(***************************************************************************)
DealOrder ==
  <<Card(ACE, CLUBS), Card(TWO, CLUBS), Card(THREE, CLUBS), Card(FOUR, CLUBS),
    Card(FIVE, CLUBS), Card(SIX, CLUBS), Card(ACE, DIAMONDS), Card(ACE, HEARTS),
    Card(ACE, SPADES), Card(TWO, DIAMONDS), Card(TWO, HEARTS), Card(SIX, DIAMONDS),
    Card(KING, SPADES)>>

\* Every 5-card hand of the dealt cards, its cards in deal order.
DealtHands ==
  LET n == Min(DeckSize, Len(DealOrder))
  IN  {<<DealOrder[a], DealOrder[b], DealOrder[c], DealOrder[d], DealOrder[e]>> :
         <<a, b, c, d, e>> \in
           {t \in (1..n) \X (1..n) \X (1..n) \X (1..n) \X (1..n) :
              t[1] < t[2] /\ t[2] < t[3] /\ t[3] < t[4] /\ t[4] < t[5]}}

PermList ==
  <<<<2, 1, 3, 4, 5>>, <<2, 3, 4, 5, 1>>, <<1, 2, 3, 4, 5>>, <<5, 4, 3, 2, 1>>,
    <<3, 1, 5, 2, 4>>>>

Permute(hand, p) == [x \in 1..5 |-> hand[p[x]]]

RoyalFlush ==
  <<Card(ACE, SPADES), Card(KING, SPADES), Card(QUEEN, SPADES),
    Card(JACK, SPADES), Card(TEN, SPADES)>>

TwoPairHand ==
  <<Card(TWO, CLUBS), Card(TWO, DIAMONDS), Card(THREE, HEARTS),
    Card(THREE, SPADES), Card(FOUR, DIAMONDS)>>

FullHouseA ==
  <<Card(ACE, CLUBS), Card(ACE, DIAMONDS), Card(FIVE, HEARTS),
    Card(FIVE, SPADES), Card(FIVE, DIAMONDS)>>

FullHouseB ==
  <<Card(ACE, SPADES), Card(ACE, HEARTS), Card(FIVE, CLUBS),
    Card(FIVE, DIAMONDS), Card(FIVE, SPADES)>>

WheelHand ==
  <<Card(ACE, HEARTS), Card(TWO, CLUBS), Card(THREE, CLUBS),
    Card(FOUR, CLUBS), Card(FIVE, CLUBS)>>

LowestHand ==
  <<Card(SEVEN, CLUBS), Card(FIVE, DIAMONDS), Card(FOUR, CLUBS),
    Card(THREE, CLUBS), Card(TWO, CLUBS)>>

PairOfAces ==
  <<Card(ACE, CLUBS), Card(ACE, DIAMONDS), Card(KING, DIAMONDS),
    Card(QUEEN, HEARTS), Card(JACK, SPADES)>>

\* Malformed hands: four cards, six cards, the same card twice, five times.
ShortHand == SubSeq(RoyalFlush, 1, 4)

LongHand == RoyalFlush \o <<Card(TWO, CLUBS)>>

RepeatedAce ==
  <<Card(ACE, CLUBS), Card(ACE, CLUBS), Card(KING, DIAMONDS),
    Card(QUEEN, HEARTS), Card(JACK, SPADES)>>

FiveSameCards == [x \in 1..5 |-> Card(ACE, CLUBS)]

HandPool ==
  {RoyalFlush, TwoPairHand, FullHouseA, FullHouseB, WheelHand, LowestHand,
   PairOfAces, ShortHand, LongHand, RepeatedAce, FiveSameCards}

RECURSIVE SeqsUpTo(_, _)
SeqsUpTo(S, n) ==
  IF n = 0 THEN {<<>>}
  ELSE LET shorter == SeqsUpTo(S, n - 1)
       IN  shorter \cup {Append(s, h) : s \in {t \in shorter : Len(t) = n - 1}, h \in S}

HandSeqs == SeqsUpTo(HandPool, MaxHands)

\* The hands ranked: the dealt ones and the named hands of five cards.
RankedHands ==
  DealtHands \cup {RoyalFlush, TwoPairHand, FullHouseA, FullHouseB, WheelHand,
                   LowestHand, PairOfAces}

\* Rows that are not two integers.
BadRows ==
  {<<<<"x">>, <<"1">>>>, <<<<"5">>>>, <<>>, <<<<"1">>, <<"1", ".", "5">>>>}

\* list c of L with the values at the positions given replaced by v.
Overwrite(L, S, pos, v) ==
  [c \in DOMAIN L |-> IF c \in S THEN [L[c] EXCEPT ![pos] = v] ELSE L[c]]

DropLast(L, c) == [L EXCEPT ![c] = SubSeq(@, 1, Len(@) - 1)]

AppendTo(L, c, v) == [L EXCEPT ![c] = Append(@, v)]

\* The lists written over: at most two of them, or at least eight.
EditSets ==
  {S \in SUBSET CategoryNames : Cardinality(S) <= 2 \/ Cardinality(S) >= 8}

\* Contents for the nine lists: those the builder computes, and those with
\* one value written over entries of some lists, dropped or added.
ListContents ==
  LET L == BuildLists
      v == L.listFlushStraight[1]
  IN  {Overwrite(L, S, pos, v) : S \in EditSets, pos \in 1..MaxEditPos}
        \cup {DropLast(L, c) : c \in CategoryNames}
        \cup {AppendTo(L, c, v) : c \in CategoryNames}

(***************************************************************************)
(* Poker rules, read from the rank and suit of the cards; they use neither *)
(* the signatures nor the table.                                           *)
(***************************************************************************)
GradeOf ==
  [v \in {RankList[x][2] : x \in 1..Len(RankList)} |->
     RankList[CHOOSE x \in 1..Len(RankList) : RankList[x][2] = v][1]]

GradeSet(hand) == {GradeOf[hand[x].value] : x \in 1..Len(hand)}

CountOf(hand, g) == Cardinality({x \in 1..Len(hand) : GradeOf[hand[x].value] = g})

Histogram(hand) == [g \in 0..12 |-> CountOf(hand, g)]

IsFlushHand(hand) == \A x \in 1..Len(hand) : hand[x].suit = hand[1].suit

\* Five cards, no card twice.
WellFormed(hand) ==
  /\ Len(hand) = 5
  /\ \A x, y \in 1..5 :
       x < y => (hand[x].value # hand[y].value \/ hand[x].suit # hand[y].suit)

SameShape(A, B) ==
  Histogram(A) = Histogram(B) /\ (IsFlushHand(A) <=> IsFlushHand(B))

Wheel == {12, 0, 1, 2, 3}

IsStraightHand(hand) ==
  LET G == GradeSet(hand)
  IN  Cardinality(G) = 5 /\ (G = Wheel \/ \E lo \in 0..8 : G = lo..(lo + 4))

MostOf(hand) ==
  CHOOSE n \in 1..5 : /\ \E g \in GradeSet(hand) : CountOf(hand, g) = n
                      /\ \A g \in GradeSet(hand) : CountOf(hand, g) <= n

\* 0 straight flush, 1 four of a kind, 2 full house, 3 flush, 4 straight,
\* 5 three of a kind, 6 two pair, 7 one pair, 8 high card.
Category(hand) ==
  LET kinds == Cardinality(GradeSet(hand))
      most == MostOf(hand)
  IN  IF IsStraightHand(hand) /\ IsFlushHand(hand) THEN 0
      ELSE IF most = 4 THEN 1
      ELSE IF most = 3 /\ kinds = 2 THEN 2
      ELSE IF IsFlushHand(hand) THEN 3
      ELSE IF IsStraightHand(hand) THEN 4
      ELSE IF most = 3 THEN 5
      ELSE IF most = 2 /\ kinds = 3 THEN 6
      ELSE IF most = 2 THEN 7
      ELSE 8

\* The tie-break key within a category: the top card of a straight (5 for
\* the wheel), else the grades read most frequent first, then highest
\* first, as the digits of a number in base 13.
Weight(hand, g) == CountOf(hand, g) * 13 + g

Place(hand, g) ==
  Cardinality({h \in GradeSet(hand) : Weight(hand, h) > Weight(hand, g)})

RECURSIVE KeyFrom(_, _)
KeyFrom(hand, g) ==
  IF g > 12 THEN 0
  ELSE (IF g \in GradeSet(hand) THEN g * (13 ^ (4 - Place(hand, g))) ELSE 0)
         + KeyFrom(hand, g + 1)

Strength(hand) ==
  LET G == GradeSet(hand)
  IN  IF IsStraightHand(hand)
      THEN IF G = Wheel THEN 3 ELSE CHOOSE g \in G : \A h \in G : h <= g
      ELSE KeyFrom(hand, 0)

(***************************************************************************)
(* State.                                                                  *)
(***************************************************************************)
VARIABLES
  file,        \* valtorank.csv
  ctor,        \* the last Evaluator() call: [kind, exc, saw]
  valToRank,   \* the instance's _valToRank
  hands,       \* the hands of the last call
  result,      \* what the last call returned or raised
  lists        \* the nine category lists the validation is given

vars == <<file, ctor, valToRank, hands, result, lists>>

NoCtor == [kind |-> "none", exc |-> "", saw |-> ""]

Unset == [kind |-> "unset", map |-> <<>>]

NoResult == [kind |-> "none", exc |-> "", value |-> <<>>]

(***************************************************************************)
(* Spec: the life of the persisted table and of an Evaluator instance.     *)
(***************************************************************************)
Init ==
  /\ file = AbsentFile
  /\ ctor = NoCtor
  /\ valToRank = Unset
  /\ hands = <<>>
  /\ result = NoResult
  /\ lists = EmptyLists

\* Evaluator(): lines 96-97.
Construct ==
  /\ ctor.kind = "none"
  /\ \E r \in {setValueToRankMap(file)} :
         /\ file' = r.file
         /\ ctor' = [kind |-> r.kind, exc |-> r.exc, saw |-> file.state]
         /\ valToRank' = IF r.kind = "ok" THEN r.ret ELSE Unset
  /\ UNCHANGED <<hands, result, lists>>

\* evaluator.evaluateHands(hs): lines 228-239.
EvaluateHands(hs) ==
  /\ ctor.kind = "ok"
  /\ hands' = hs
  /\ result' = evaluateHands(valToRank, hs)
  /\ UNCHANGED <<file, ctor, valToRank, lists>>

\* The instance is dropped (the process ends).
Discard ==
  /\ ctor.kind # "none"
  /\ ctor' = NoCtor
  /\ valToRank' = Unset
  /\ hands' = <<>>
  /\ result' = NoResult
  /\ UNCHANGED <<file, lists>>

\* Between two runs the environment damages a row of the written file, or
\* removes the file.
DamageRow(k, bad) ==
  /\ ctor.kind = "none"
  /\ file.state = "written"
  /\ k <= Len(file.rows)
  /\ file' = [file EXCEPT !.rows[k] = bad, !.state = "damaged"]
  /\ UNCHANGED <<ctor, valToRank, hands, result, lists>>

DeleteFile ==
  /\ ctor.kind = "none"
  /\ file.exists
  /\ file' = AbsentFile
  /\ UNCHANGED <<ctor, valToRank, hands, result, lists>>

Next ==
  \/ Construct
  \/ ctor.kind = "ok" /\ result.kind = "none" /\ \E hs \in HandSeqs : EvaluateHands(hs)
  \/ Discard
  \/ \E k \in 1..MaxCorruptRow, bad \in BadRows : DamageRow(k, bad)
  \/ DeleteFile

Spec == Init /\ [][Next]_vars

(***************************************************************************)
(* SpecEval: evaluateHands on an Evaluator whose table is the one the      *)
(* builder produces.                                                       *)
(***************************************************************************)
InitEval ==
  /\ file = AbsentFile
  /\ ctor = [kind |-> "ok", exc |-> "", saw |-> "given"]
  /\ valToRank = DictValue(buildValueToRankMap.map)
  /\ hands = <<>>
  /\ result = NoResult
  /\ lists = EmptyLists

NextEval == result.kind = "none" /\ \E hs \in HandSeqs : EvaluateHands(hs)

SpecEval == InitEval /\ [][NextEval]_vars

(***************************************************************************)
(* SpecRank: two dealt hands looked up in the table the builder produces   *)
(* (the subscript of line 233).  -1 stands for a missing key.              *)
(***************************************************************************)
LookUp(hand) ==
  LET built == buildValueToRankMap
  IN  IF built.kind = "ok" /\ getHandValue(hand) \in DOMAIN built.map
      THEN built.map[getHandValue(hand)]
      ELSE -1

InitIdle ==
  /\ file = AbsentFile
  /\ ctor = NoCtor
  /\ valToRank = Unset
  /\ hands = <<>>
  /\ result = NoResult
  /\ lists = EmptyLists

RankHands(A, rankA, B) ==
  /\ result.kind = "none"
  /\ hands' = <<A, B>>
  /\ result' = [kind |-> "ranks", exc |-> "", value |-> <<rankA, LookUp(B)>>]
  /\ UNCHANGED <<file, ctor, valToRank, lists>>

NextRank ==
  /\ result.kind = "none"
  /\ \E A \in RankedHands :
       \E rankA \in {LookUp(A)} :
         \E B \in RankedHands : RankHands(A, rankA, B)

SpecRank == InitIdle /\ [][NextRank]_vars

(***************************************************************************)
(* SpecValue: the hand values of two dealt hands of the same rank counts   *)
(* and the same flush-ness, the second in any of the orders of PermList.   *)
(***************************************************************************)
ValueHands(A, B) ==
  /\ result.kind = "none"
  /\ hands' = <<A, B>>
  /\ result' = [kind |-> "values", exc |-> "",
                value |-> <<getHandValue(A), getHandValue(B)>>]
  /\ UNCHANGED <<file, ctor, valToRank, lists>>

NextValue ==
  /\ result.kind = "none"
  /\ \E A \in DealtHands :
       \E B \in {h \in DealtHands : SameShape(A, h)} :
         \E p \in 1..Min(MaxPerm, Len(PermList)) :
           ValueHands(A, Permute(B, PermList[p]))

SpecValue == InitIdle /\ [][NextValue]_vars

(***************************************************************************)
(* SpecValidate: the validation and the zip of lines 212-226 on given      *)
(* contents of the nine lists.                                             *)
(***************************************************************************)
InitValidate ==
  /\ file = AbsentFile
  /\ ctor = NoCtor
  /\ valToRank = Unset
  /\ hands = <<>>
  /\ result = NoResult
  /\ lists \in ListContents

Validate ==
  /\ result.kind = "none"
  /\ LET r == ValidateAndZip(lists)
     IN  result' = [kind |-> r.kind, exc |-> r.exc, value |-> r.map]
  /\ UNCHANGED <<file, ctor, valToRank, hands, lists>>

NextValidate == Validate

SpecValidate == InitValidate /\ [][NextValidate]_vars

(***************************************************************************)
(* Properties.                                                             *)
(***************************************************************************)
\* The value sets of the nine lists the builder computes.
builtSets == [c \in CategoryNames |-> ListSet(BuildLists[c])]

\* No value twice within a list, no value in two lists.
builtListsDisjoint ==
  /\ \A c \in CategoryNames : Cardinality(builtSets[c]) = Len(BuildLists[c])
  /\ \A c, d \in CategoryNames : c # d => builtSets[c] \cap builtSets[d] = {}

ListsOf(hand) == {c \in CategoryNames : getHandValue(hand) \in builtSets[c]}

\* The rules and the lists of each ranked hand, tabulated.
rankedFacts ==
  [h \in RankedHands |->
     [wellFormed |-> WellFormed(h), category |-> Category(h),
      strength |-> Strength(h), grades |-> GradeSet(h), lists |-> ListsOf(h),
      handValue |-> getHandValue(h)]] @@ <<>>

PairwiseDisjoint(L) ==
  LET sets == [c \in CategoryNames |-> ListSet(L[c])]
  IN  \A c, d \in CategoryNames : c # d => sets[c] \cap sets[d] = {}

\* The 0-based indices of the hands whose rank is the least of all.
BestIndices(hs) ==
  {n \in 0..(Len(hs) - 1) : \A m \in 0..(Len(hs) - 1) : LookUp(At(hs, n)) <= LookUp(At(hs, m))}

IndexSet(value) == {value[x] : x \in 1..Len(value)}

\* C1: once Evaluator() has completed, the instance holds the table, a
\* dictionary equal to the one the builder returns, whether the file was
\* absent (built) or present as the builder wrote it (loaded).
C1_InstanceHoldsTable ==
  ctor.kind = "ok" =>
    /\ valToRank.kind = "dict"
    /\ valToRank.map = buildValueToRankMap.map

\* C2: with the built table and a non-empty sequence of hands of five
\* distinct cards, evaluateHands returns exactly the indices of the hands of
\* least rank, each once, and the same hands when the sequence is reversed;
\* a royal flush against two pair gives [0], two full houses of the same
\* ranks give [0, 1].
C2_BestIndices ==
  (/\ result.kind # "none"
   /\ Len(hands) > 0
   /\ \A n \in 1..Len(hands) : WellFormed(hands[n])) =>
    /\ result.kind = "ok"
    /\ IndexSet(result.value) = BestIndices(hands)
    /\ Len(result.value) = Cardinality(BestIndices(hands))
    /\ \E back \in {evaluateHands(valToRank, Reversed(hands))} :
         /\ back.kind = "ok"
         /\ IndexSet(back.value) = {Len(hands) - 1 - n : n \in IndexSet(result.value)}
    /\ hands = <<RoyalFlush, TwoPairHand>> => result.value = <<0>>
    /\ hands = <<FullHouseA, FullHouseB>> => result.value = <<0, 1>>

C2_TieReturned ==
  /\ hands = <<FullHouseA, FullHouseB>>
  /\ result.kind = "ok"
  /\ result.value = <<0, 1>>

\* C3: two hands of five distinct cards with the same count of each rank and
\* the same flush-ness have the same hand value, whatever the suits and
\* whatever the order of the cards.
C3_ValueOfShape ==
  (/\ result.kind = "values"
   /\ WellFormed(hands[1]) /\ WellFormed(hands[2])
   /\ SameShape(hands[1], hands[2])) =>
    result.value[1] = result.value[2]

C3_OtherSuitOtherOrder ==
  /\ result.kind = "values"
  /\ Category(hands[1]) = 1
  /\ SameShape(hands[1], hands[2])
  /\ \E x \in 1..5 : hands[1][x].suit # hands[2][x].suit
  /\ {hands[1][x] : x \in 1..5} # {hands[2][x] : x \in 1..5}
  /\ result.value[1] = result.value[2]

\* C4: the table built from the lists of the builder has 7462 entries, and
\* the nine lists have the sizes 10, 156, 156, 1277, 10, 858, 858, 2860, 1277.
C4_TableSizes ==
  (lists = BuildLists /\ result.kind # "none") =>
    /\ result.kind = "ok"
    /\ Cardinality(DOMAIN result.value) = 7462
    /\ Len(lists.listFlushStraight) = 10
    /\ Len(lists.listFourKind) = 156
    /\ Len(lists.listFullHouse) = 156
    /\ Len(lists.listFlush) = 1277
    /\ Len(lists.listStraight) = 10
    /\ Len(lists.listThreeKind) = 858
    /\ Len(lists.listTwoPair) = 858
    /\ Len(lists.listPair) = 2860
    /\ Len(lists.listHigh) = 1277

C4_BuiltTable ==
  /\ lists = BuildLists
  /\ result.kind = "ok"
  /\ Len(lists.listPair) = 2860
  /\ Cardinality(DOMAIN result.value) = numKeys

\* C5: the nine lists built are pairwise disjoint and repeat no value, and
\* the value of every hand of five distinct cards is in exactly one list, so
\* the hand has a rank, and two hands have one rank only if they have one
\* value.
C5_ExactlyOneList ==
  result.kind = "ranks" =>
    \E A \in {rankedFacts[hands[1]]}, B \in {rankedFacts[hands[2]]} :
      /\ builtListsDisjoint
      /\ A.wellFormed => (Cardinality(A.lists) = 1 /\ result.value[1] >= 0)
      /\ B.wellFormed => (Cardinality(B.lists) = 1 /\ result.value[2] >= 0)
      /\ (A.wellFormed /\ B.wellFormed) =>
           ((result.value[1] = result.value[2]) <=> (A.handValue = B.handValue))

C5_FullHouseInOneList ==
  /\ result.kind = "ranks"
  /\ Category(hands[1]) = 2
  /\ Category(hands[2]) = 5
  /\ ListsOf(hands[1]) = {"listFullHouse"}
  /\ ListsOf(hands[2]) = {"listThreeKind"}

\* C6: when the category of hand A outranks the category of hand B, the
\* table ranks A below B; rank 0 is a straight flush (the royal flush) and
\* rank 7461 a high-card hand (7-5-4-3-2).
C6_CategoryOrder ==
  result.kind = "ranks" =>
    \E A \in {rankedFacts[hands[1]]}, B \in {rankedFacts[hands[2]]} :
      (A.wellFormed /\ B.wellFormed) =>
        /\ A.category < B.category =>
             (0 <= result.value[1] /\ result.value[1] < result.value[2])
        /\ result.value[1] = 0 => A.category = 0
        /\ result.value[1] = numKeys - 1 => A.category = 8
        /\ hands[1] = RoyalFlush => result.value[1] = 0
        /\ hands[2] = LowestHand => result.value[2] = numKeys - 1

C6_FirstAndLast ==
  /\ result.kind = "ranks"
  /\ hands = <<RoyalFlush, LowestHand>>
  /\ result.value = <<0, numKeys - 1>>

\* C7: with the built table, evaluateHands raises whenever a hand given is
\* malformed: not five cards, or a card twice.
C7_MalformedRaises ==
  (result.kind # "none" /\ \E n \in 1..Len(hands) : ~WellFormed(hands[n])) =>
    result.kind = "raised"

\* C8: Evaluator() on a missing or a damaged file does not fail: it builds
\* the table and writes it, so the file then holds the built table.
C8_RebuildsAndPersists ==
  (ctor.kind # "none" /\ ctor.saw \in {"absent", "damaged"}) =>
    /\ ctor.kind = "ok"
    /\ file.state = "written"
    /\ file.rows = writtenRows

\* C9: for any contents of the nine lists, when the validation passes the
\* lists are pairwise disjoint and the table has 7462 distinct keys.
C9_ValidationSound ==
  result.kind = "ok" =>
    /\ PairwiseDisjoint(lists)
    /\ Cardinality(DOMAIN result.value) = numKeys

\* C10: for two hands of five distinct cards of one category, the table
\* ranks A below B exactly when A beats B by the tie-break order of poker,
\* and gives them one rank exactly when they tie.
C10_TieBreakOrder ==
  result.kind = "ranks" =>
    \E A \in {rankedFacts[hands[1]]}, B \in {rankedFacts[hands[2]]} :
      (A.wellFormed /\ B.wellFormed /\ A.category = B.category) =>
        /\ result.value[1] >= 0
        /\ result.value[2] >= 0
        /\ (result.value[1] < result.value[2]) <=> (A.strength > B.strength)
        /\ (result.value[1] = result.value[2]) <=> (A.strength = B.strength)

C10_WheelIsWeakest ==
  /\ result.kind = "ranks"
  /\ Category(hands[1]) = 0
  /\ Category(hands[2]) = 0
  /\ GradeSet(hands[1]) = Wheel
  /\ GradeSet(hands[2]) # Wheel
  /\ result.value[2] < result.value[1]
====
